---------------------------- MODULE Spec2Model ----------------------------
(***************************************************************************)
(* A model of s3peat (src/s3peat/__init__.py): S3Queue (the upload worker  *)
(* thread), S3Uploader (the coordinator: enumeration, filtering, round-    *)
(* robin partitioning, the polling loop, the progress counter, stop()),    *)
(* and of the s3peat command (src/s3peat/scripts.py, Main).                *)
(*                                                                         *)
(* Python strings are sequences of one-character strings.  A regular       *)
(* expression is modelled by a literal pattern, so reg.search(s) is a      *)
(* substring search.  None is a value of its own.                          *)
(*                                                                         *)
(* Seven specifications share the variables:                               *)
(*   SpecKey    S3Queue.__init__ and S3Queue._key on drawn strings         *)
(*   SpecFilter S3Uploader.get_filenames on drawn listings and patterns    *)
(*   Spec       one S3Uploader.upload() run with its worker threads        *)
(*   SpecCli    one run of the s3peat command, dry or with a real upload   *)
(*   SpecCounter sequential calls of S3Uploader.counter                    *)
(*   SpecLive   Spec with the fair scheduling of the threads               *)
(*   SpecRerun  upload() on an S3Uploader that may have been used before   *)
(***************************************************************************)
EXTENDS Integers, Sequences, FiniteSets, TLC

(***************************************************************************)
(* Bounds of the model.                                                    *)
(***************************************************************************)
\* longest prefix / strip_path string drawn for S3Queue
MaxArgLen == 2
\* longest filename drawn for S3Queue._key
MaxPathLen == 3
\* most files a drawn directory listing holds (get_filenames alone)
MaxWalk == 3
\* most patterns in a drawn include or exclude list
MaxPats == 2
\* largest concurrency
MaxConc == 2
\* most get_filenames calls on one S3Uploader (get_filenames alone)
MaxCalls == 2
\* most files in the directory of an upload() run
MaxFiles == 3
\* most files in the directory of a run of the s3peat command
CliMaxFiles == 2
\* largest --concurrency of a run of the s3peat command
CliMaxConc == 2
\* most counter calls on one S3Uploader (counter alone)
MaxCounterCalls == 4
\* most files in the directory when upload() is called on a used S3Uploader
RerunMaxFiles == 2

(***************************************************************************)
(* Python values.                                                          *)
(***************************************************************************)
\* None where a string is expected (never equal to a string of Chars)
None == <<"None">>

\* the characters strings are drawn from; "/" is the separator
Chars == {"/", "a"}

StringsUpTo(n) == UNION {[1..k -> Chars] : k \in 0..n}

\* Python truthiness of an optional string: None and '' are falsy
Truthy(s) == s # None /\ s # <<>>

\* str.lstrip('/')
RECURSIVE LStrip(_)
LStrip(s) ==
    IF s # <<>> /\ Head(s) = "/" THEN LStrip(Tail(s)) ELSE s

\* str.rstrip('/')
RECURSIVE RStrip(_)
RStrip(s) ==
    IF s # <<>> /\ s[Len(s)] = "/" THEN RStrip(SubSeq(s, 1, Len(s) - 1)) ELSE s

\* str.strip('/')
Strip(s) == RStrip(LStrip(s))

\* str.startswith(p)
StartsWith(s, p) == Len(p) <= Len(s) /\ SubSeq(s, 1, Len(p)) = p

\* '/'.join((a, b))
JoinSlash(a, b) == a \o <<"/">> \o b

(***************************************************************************)
(* S3Queue: key generation.                                                *)
(***************************************************************************)
\* S3Queue.__init__: self.prefix = (prefix or '').strip('/')
S3Queue_init_prefix(prefix) == Strip(IF Truthy(prefix) THEN prefix ELSE <<>>)

\* a plausible slip: strip_path is cut off without the startswith test
S3Queue_key_NoStartsWith(self_prefix, strip_path, filename) ==
    LET stripped == IF Truthy(strip_path)
                        THEN SubSeq(filename, Len(strip_path) + 1, Len(filename))
                        ELSE filename
    IN  JoinSlash(self_prefix, LStrip(stripped))

\* S3Queue._key(filename), with self.prefix and self.strip_path as parameters
S3Queue_key(self_prefix, strip_path, filename) ==
    LET stripped == IF Truthy(strip_path) /\ StartsWith(filename, strip_path)
                        THEN SubSeq(filename, Len(strip_path) + 1, Len(filename))
                        ELSE filename
    IN  JoinSlash(self_prefix, LStrip(stripped))

(***************************************************************************)
(* S3Uploader.get_filenames: filtering and round-robin splitting.          *)
(***************************************************************************)
\* None where a list of patterns is expected
NoneList == << <<"None">> >>

\* Python truthiness of an optional list: None and [] are falsy
TruthyList(l) == l # NoneList /\ l # <<>>

\* sequences over S of length at most n
SeqsUpTo(S, n) == UNION {[1..k -> S] : k \in 0..n}

NoRepeat(q) == \A i, j \in 1..Len(q) : i # j => q[i] # q[j]

\* sequences over S without repetition, of length at most n
DistinctSeqs(S, n) == {q \in SeqsUpTo(S, n) : NoRepeat(q)}

\* the files a drawn directory "a" may hold, as os.walk names them
\* (os.path.join(path, filename)): a/a, a/b, a/ab
FilePool ==
    {<<"a", "/", "a">>, <<"a", "/", "b">>, <<"a", "/", "a", "b">>}

\* the literal patterns include and exclude lists are drawn from
PatPool == {<<"b">>, <<"a", "b">>}

\* reg.search(filename) for a literal pattern: filename contains reg
Search(reg, filename) ==
    \E i \in 0..(Len(filename) - Len(reg)) :
        SubSeq(filename, i + 1, i + Len(reg)) = reg

\* for reg in regs: if reg.search(filename): ...; break
RECURSIVE AnySearch(_, _)
AnySearch(regs, filename) ==
    IF regs = <<>> THEN FALSE
    ELSE IF Search(Head(regs), filename) THEN TRUE
    ELSE AnySearch(Tail(regs), filename)

\* a plausible slip: the exclude list is never consulted
Keep_IgnoresExclude(include, exclude, filename) ==
    IF TruthyList(include) THEN AnySearch(include, filename) ELSE TRUE

\* a plausible slip: the exclude list is consulted only without an include list
Keep_ExcludeOnlyWithoutInclude(include, exclude, filename) ==
    IF TruthyList(include) THEN AnySearch(include, filename)
    ELSE IF TruthyList(exclude) THEN ~AnySearch(exclude, filename)
    ELSE TRUE

\* the body of the loop of get_filenames: TRUE iff no `continue` is taken
Keep(include, exclude, filename) ==
    LET skipInclude == TruthyList(include) /\ ~AnySearch(include, filename)
        skipExclude == TruthyList(exclude) /\ AnySearch(exclude, filename)
    IN  IF skipInclude THEN FALSE
        ELSE IF skipExclude THEN FALSE
        ELSE TRUE

\* a plausible slip: total is not reset, so it accumulates over calls
TotalAtEntry_Keep(total) == total

\* get_filenames: self.total = 0
TotalAtEntry(total) == 0

\* the walk loop of get_filenames: [filenames, total] after the files of
\* `listing` were visited, starting from acc
RECURSIVE WalkLoop(_, _, _, _)
WalkLoop(listing, include, exclude, acc) ==
    IF listing = <<>> THEN acc
    ELSE WalkLoop(Tail(listing), include, exclude,
                  IF Keep(include, exclude, Head(listing))
                      THEN [filenames |-> Append(acc.filenames, Head(listing)),
                            total |-> acc.total + 1]
                      ELSE acc)

\* a plausible slip: whole rounds only, the last len % concurrency files
\* are left out
RECURSIVE SplitLoop_WholeRounds(_, _, _, _)
SplitLoop_WholeRounds(filenames, concurrency, i, groups) ==
    IF i >= Len(filenames) - (Len(filenames) % concurrency) THEN groups
    ELSE SplitLoop_WholeRounds(filenames, concurrency, i + 1,
            [groups EXCEPT ![(i % concurrency) + 1] = Append(@, filenames[i + 1])])

\* for i in xrange(len(filenames)):
\*     groups[i % self.concurrency].append(filenames[i])
RECURSIVE SplitLoop(_, _, _, _)
SplitLoop(filenames, concurrency, i, groups) ==
    IF i >= Len(filenames) THEN groups
    ELSE SplitLoop(filenames, concurrency, i + 1,
            [groups EXCEPT ![(i % concurrency) + 1] = Append(@, filenames[i + 1])])

\* a plausible slip: the list is cut into `concurrency` contiguous blocks
Split_Blocks(filenames, concurrency) ==
    LET size == (Len(filenames) + concurrency - 1) \div concurrency
        Min(a, b) == IF a < b THEN a ELSE b
    IN  [g \in 1..concurrency |->
            SubSeq(filenames, Min((g - 1) * size, Len(filenames)) + 1,
                   Min(g * size, Len(filenames)))]

\* if split: groups = [list() for i in xrange(self.concurrency)]; ...
Split(filenames, concurrency) ==
    SplitLoop(filenames, concurrency, 0, [g \in 1..concurrency |-> <<>>])

\* get_filenames(split): [value |-> the list returned, total |-> self.total]
S3Uploader_get_filenames(listing, include, exclude, concurrency, total, split) ==
    LET r == WalkLoop(listing, include, exclude,
                      [filenames |-> <<>>, total |-> TotalAtEntry(total)])
    IN  [value |-> IF split THEN Split(r.filenames, concurrency) ELSE r.filenames,
         total |-> r.total]

(***************************************************************************)
(* State.                                                                  *)
(***************************************************************************)
VARIABLES
    \* an S3Queue used for key generation alone
    kpc,          \* "off" | "new" | "constructed" | "keyed"
    kprefix,      \* the prefix argument of S3Queue.__init__
    kself_prefix, \* S3Queue.prefix
    kstrip_path,  \* S3Queue.strip_path
    kfilename,    \* the argument of the last _key call
    kkey,         \* the value the last _key call returned
    \* the file system and the S3Uploader
    walk,         \* the files os.walk(self.directory) yields, in its order
    include,      \* S3Uploader.include
    exclude,      \* S3Uploader.exclude
    concurrency,  \* S3Uploader.concurrency (the command line's --concurrency)
    public,       \* S3Bucket.public
    dry_run,      \* the command line's --dry-run
    output,       \* S3Uploader.output: TRUE for a stream, FALSE for None
    total,        \* S3Uploader.total
    \* get_filenames called on its own
    fhist,        \* one entry per get_filenames call: [split, value, total]
    \* one upload() run
    dirExists,    \* os.path.exists(self.directory)
    count,        \* S3Uploader.count
    errors,       \* S3Uploader.errors
    queues,       \* S3Uploader.queues: the S3Queue threads, see NewQueue
    mpc,          \* where the main thread is, see MainPcs
    groups,       \* upload(): the local `filenames` (list of groups)
    nextq,        \* upload(): index of the next group the start loop takes
    handler,      \* TRUE once signal.signal(SIGINT, self.stop) was called
    ret,          \* what upload() returned or raised, see Pending
    sessions,     \* the number of boto.connect_s3 calls made so far
    exit_status,  \* <<>> while the process lives, <<n>> once it exited with n
    \* the s3peat command
    cpc,          \* where Main.run is, see CliPcs
    \* counter called on its own
    ccalls,       \* the argument lists of the counter calls made so far
    \* the output stream
    written       \* the strings self.output.write was called with, in order

kvars == <<kpc, kprefix, kself_prefix, kstrip_path, kfilename, kkey>>

cfgvars == <<walk, include, exclude, concurrency, public, dry_run, output>>

runvars ==
    <<dirExists, count, errors, queues, mpc, groups, nextq, handler, ret,
      sessions, exit_status, cpc>>

vars == <<kvars, cfgvars, total, fhist, runvars, ccalls, written>>

\* upload() has not returned
Pending == [kind |-> "pending", value |-> <<>>]

\* no S3Queue is used for key generation alone
KOff ==
    /\ kpc = "off" /\ kprefix = None /\ kself_prefix = <<>>
    /\ kstrip_path = None /\ kfilename = <<>> /\ kkey = <<>>

\* no S3Uploader
UOff ==
    /\ walk = <<>> /\ include = NoneList /\ exclude = NoneList
    /\ concurrency = 1 /\ public = TRUE /\ dry_run = FALSE /\ output = FALSE
    /\ total = 0 /\ fhist = <<>>

\* upload() is not called
RunOff ==
    /\ dirExists = TRUE /\ count = 0 /\ errors = 0 /\ queues = <<>>
    /\ mpc = "off" /\ groups = <<>> /\ nextq = 1
    /\ handler = FALSE /\ ret = Pending
    /\ sessions = 0 /\ exit_status = <<>> /\ cpc = "off"
    /\ ccalls = <<>> /\ written = <<>>

(***************************************************************************)
(* SpecKey: S3Queue(prefix, [], bucket, strip_path) and then _key calls.   *)
(***************************************************************************)
KInit ==
    /\ kpc = "new"
    /\ kprefix \in StringsUpTo(MaxArgLen) \cup {None}
    /\ kstrip_path \in StringsUpTo(MaxArgLen) \cup {None}
    /\ kself_prefix = <<>>
    /\ kfilename = <<>>
    /\ kkey = <<>>
    /\ UOff
    /\ RunOff

\* S3Queue.__init__
K_Construct ==
    /\ kpc = "new"
    /\ kpc' = "constructed"
    /\ kself_prefix' = S3Queue_init_prefix(kprefix)
    /\ UNCHANGED <<kprefix, kstrip_path, kfilename, kkey>>
    /\ UNCHANGED <<cfgvars, total, fhist, runvars, ccalls, written>>

\* S3Queue._key(filename)
K_Key ==
    /\ kpc \in {"constructed", "keyed"}
    /\ \E filename \in StringsUpTo(MaxPathLen) :
        /\ kfilename' = filename
        /\ kkey' = S3Queue_key(kself_prefix, kstrip_path, filename)
    /\ kpc' = "keyed"
    /\ UNCHANGED <<kprefix, kself_prefix, kstrip_path>>
    /\ UNCHANGED <<cfgvars, total, fhist, runvars, ccalls, written>>

KNext == K_Construct \/ K_Key

SpecKey == KInit /\ [][KNext]_vars

(***************************************************************************)
(* SpecFilter: an S3Uploader on a drawn directory, get_filenames called    *)
(* up to MaxCalls times, the directory unchanged between the calls.        *)
(***************************************************************************)
PatLists == SeqsUpTo(PatPool, MaxPats) \cup {NoneList}

FInit ==
    /\ KOff
    /\ walk \in DistinctSeqs(FilePool, MaxWalk)
    /\ include \in PatLists
    /\ exclude \in PatLists
    /\ concurrency \in 1..MaxConc
    /\ public = TRUE /\ dry_run = FALSE /\ output = FALSE
    /\ total = 0
    /\ fhist = <<>>
    /\ RunOff

\* S3Uploader.get_filenames(split)
F_GetFilenames ==
    /\ Len(fhist) < MaxCalls
    /\ \E split \in BOOLEAN :
        LET r == S3Uploader_get_filenames(walk, include, exclude, concurrency,
                                          total, split)
        IN  /\ total' = r.total
            /\ fhist' = Append(fhist, [split |-> split, value |-> r.value,
                                       total |-> r.total])
    /\ UNCHANGED <<kvars, cfgvars, ccalls, written, written, runvars>>

FNext == F_GetFilenames

SpecFilter == FInit /\ [][FNext]_vars

(***************************************************************************)
(* S3Queue (a worker thread) and S3Uploader.upload(): helpers.             *)
(***************************************************************************)
Front(q) == SubSeq(q, 1, Len(q) - 1)

\* a plausible slip: the first filename is taken
Last_First(q) == q[1]

Last(q) == q[Len(q)]

\* the k-th file of the directory of an upload() run: a/b, a/bb, a/bbb, ...
RunFile(k) == <<"a", "/">> \o [i \in 1..k |-> "b"]

\* the listings os.walk may yield in an upload() run
RunWalks == {[k \in 1..n |-> RunFile(k)] : n \in 0..MaxFiles}

\* the exclude lists of an upload() run: none, or one excluding a/bb, a/bbb, ...
RunExcludes == {NoneList, << <<"b", "b">> >>}

\* where the main thread is
MainPcs ==
    {"off", "new", "checkdir", "getnew", "enumerate", "start", "poll",
     "collect", "returned", "raised", "stopping", "exited"}

\* the positions at which the main thread runs Python code of upload(), so
\* that the SIGINT handler can be run
MainRunning ==
    {"checkdir", "getnew", "enumerate", "start", "poll", "collect", "returned"}

\* S3Uploader.directory and S3Uploader.prefix of an upload() run
RunDirectory == <<"a">>

RunPrefix == <<"b", "/">>

\* S3Queue.__init__ followed by Thread.start(): the thread is about to run().
\*   filenames, failed: the attributes; pc: where run() is; cur: the filename
\*   _upload was called with; arg: the arguments of the pending counter call;
\*   tmp: the value loaded by the pending `+= 1` (0 when none is pending); log: one entry per finished
\*   upload attempt, [file, result]; calls: the argument lists the counter
\*   was called with; store: the calls made on the boto Key objects, in
\*   order, [op, key, arg, ok, session]; bucket: run()'s local `bucket`,
\*   <<>> before get_new returned.
NewQueue(group) ==
    [filenames |-> group, failed |-> <<>>, pc |-> "getnew", cur |-> <<>>,
     arg |-> <<>>, tmp |-> 0, log |-> <<>>, calls |-> <<>>, store |-> <<>>,
     bucket |-> <<>>]

\* the thread that runs upload(); the thread of the i-th S3Queue is i
MainThread == 0

\* a plausible slip: the S3Bucket keeps one connection and hands it to
\* every caller
S3Bucket_get_new_Cached(thread) == <<MainThread>>

\* S3Bucket.get_new, lines 66-68: every call makes a connection of its own
\* (boto.connect_s3) and returns the bucket of that connection; the
\* connection is named after the thread whose call made it
S3Bucket_get_new(thread) == <<thread>>

\* _upload, lines 150-152: key = self._key(filename), with the prefix and
\* the strip_path upload() constructs the S3Queue with (line 251)
UploadKey(filename) ==
    S3Queue_key(S3Queue_init_prefix(RunPrefix), RunDirectory, filename)

\* a plausible slip: every upload is made public
AclPolicy_AlwaysPublic(is_public) == "public-read"

\* lines 156-159: the ACL _upload sets
AclPolicy(is_public) ==
    IF is_public THEN "public-read" ELSE "authenticated-read"

\* line 153: s3key.set_contents_from_filename(filename), as a store call
PutCall(q, ok) ==
    [op |-> "set_contents_from_filename", key |-> UploadKey(q.cur),
     arg |-> q.cur, ok |-> ok, session |-> q.bucket]

\* lines 157/159: s3key.set_acl(...), as a store call
AclCall(q, is_public, ok) ==
    [op |-> "set_acl", key |-> UploadKey(q.cur),
     arg |-> <<AclPolicy(is_public)>>, ok |-> ok, session |-> q.bucket]

\* a plausible slip: the exception of a failed upload leaves run()
UploadFailed_Raise(q, result) ==
    [q EXCEPT !.log = Append(@, [file |-> q.cur, result |-> result]),
              !.pc = "dead"]

\* a plausible slip: the failure branch forgets the counter
UploadFailed_NoCounter(q, result) ==
    [q EXCEPT !.failed = Append(@, q.cur),
              !.log = Append(@, [file |-> q.cur, result |-> result]),
              !.pc = "pop"]

\* _upload, the except branch: self.failed.append(filename); self.counter(False)
UploadFailed(q, result) ==
    [q EXCEPT !.failed = Append(@, q.cur),
              !.log = Append(@, [file |-> q.cur, result |-> result]),
              !.arg = <<FALSE>>,
              !.pc = "counter"]

\* _upload, the else branch: self.counter()
UploadSucceeded(q) ==
    [q EXCEPT !.log = Append(@, [file |-> q.cur, result |-> "ok"]),
              !.arg = <<>>,
              !.pc = "counter"]

\* counter(self, error=False): the value `error` is bound to
CounterError(arg) == IF arg = <<>> THEN FALSE ELSE arg[1]

\* str(n) for a natural number n
Digits == <<"0", "1", "2", "3", "4", "5", "6", "7", "8", "9">>

RECURSIVE Str(_)
Str(n) ==
    IF n < 10 THEN <<Digits[n + 1]>>
              ELSE Str(n \div 10) \o <<Digits[(n % 10) + 1]>>

\* " " * n, the empty string for n <= 0
Spaces(n) == [k \in 1..n |-> " "]

\* ("{:" + str(width) + "d}").format(n): right-aligned, padded with spaces
FormatD(width, n) == Spaces(width - Len(Str(n))) \o Str(n)

\* line 373: int(os.environ.get('COLUMNS', 80)), the default
DefaultColumns == 80

\* the values of COLUMNS a call may find in its environment: a terminal
\* narrower than the line, or the default
ColumnsEnv == {10, DefaultColumns}

\* a plausible slip: the error segment appears only for two or more errors
S3Uploader_output_ErrorsWhenPlural(out, cnt, tot, errs, columns) ==
    IF ~out
       THEN <<>>
       ELSE LET total_s == Str(tot)
                line0 == FormatD(Len(total_s), cnt) \o <<"/">> \o total_s \o
                         <<" ", "f", "i", "l", "e", "s", " ",
                           "u", "p", "l", "o", "a", "d", "e", "d">>
                line1 == IF errs > 1
                            THEN line0 \o <<" ", "(">> \o Str(errs) \o
                                 <<" ", "e", "r", "r", "o", "r", "s", ")">>
                            ELSE line0
            IN  << <<"\r">> \o line1 \o Spaces(columns - Len(line1) - 1) >>

\* S3Uploader._output, lines 349-380: the strings it writes to self.output,
\* in order.  None without a stream; otherwise one string: "\r", the count
\* right-aligned to the width of the total, "/", the total,
\* " files uploaded", " (N error[s])" if self.errors is non-zero, and spaces
\* up to COLUMNS - 1 characters
S3Uploader_output(out, cnt, tot, errs, columns) ==
    IF ~out
       THEN <<>>
       ELSE LET total_s == Str(tot)
                line0 == FormatD(Len(total_s), cnt) \o <<"/">> \o total_s \o
                         <<" ", "f", "i", "l", "e", "s", " ",
                           "u", "p", "l", "o", "a", "d", "e", "d">>
                line1 == IF errs # 0
                            THEN line0 \o <<" ", "(">> \o Str(errs) \o
                                 <<" ", "e", "r", "r", "o", "r">> \o
                                 (IF errs > 1 THEN <<"s">> ELSE <<>>) \o
                                 <<")">>
                            ELSE line0
            IN  << <<"\r">> \o line1 \o Spaces(columns - Len(line1) - 1) >>

\* a plausible slip: only the first queue is looked at
Remaining_FirstQueue(qs) ==
    IF qs = <<>> THEN 0 ELSE Len(qs[1].filenames)

\* remaining = sum([len(q.filenames) for q in self.queues])
RECURSIVE Remaining(_)
Remaining(qs) ==
    IF qs = <<>> THEN 0 ELSE Len(Head(qs).filenames) + Remaining(Tail(qs))

\* a plausible slip: only the last queue's failures are returned
CollectFailures_LastOnly(qs) ==
    IF qs = <<>> THEN <<>> ELSE Last(qs).failed

\* for queue in self.queues: failures.extend(queue.failed)
RECURSIVE CollectFailures(_)
CollectFailures(qs) ==
    IF qs = <<>> THEN <<>> ELSE Head(qs).failed \o CollectFailures(Tail(qs))

(***************************************************************************)
(* Spec: one upload() run.  The main thread.                               *)
(***************************************************************************)
Init ==
    /\ KOff
    /\ fhist = <<>>
    /\ dirExists \in BOOLEAN
    /\ walk \in RunWalks
    /\ ~dirExists => walk = <<>>
    /\ include = NoneList
    /\ exclude \in RunExcludes
    /\ concurrency \in 1..MaxConc
    /\ total = 0 /\ count = 0 /\ errors = 0 /\ queues = <<>>
    /\ mpc = "new" /\ groups = <<>> /\ nextq = 1
    /\ handler = FALSE /\ ret = Pending
    /\ public = TRUE /\ dry_run = FALSE /\ output = FALSE
    /\ sessions = 0 /\ exit_status = <<>> /\ cpc = "off"
    /\ ccalls = <<>> /\ written = <<>>

\* a plausible slip: the counters and the queues list are set in __init__
\* alone
M_Upload_NoReset ==
    /\ mpc = "new"
    /\ handler' = TRUE
    /\ mpc' = "checkdir"
    /\ UNCHANGED <<kvars, cfgvars, ccalls, written, total, fhist, cpc, sessions,
                   exit_status, dirExists, groups, nextq, ret, count, errors,
                   queues>>

\* upload(), lines 231-236: reset the counters, install the SIGINT handler
M_Upload ==
    /\ mpc = "new"
    /\ count' = 0 /\ errors' = 0 /\ queues' = <<>>
    /\ handler' = TRUE
    /\ mpc' = "checkdir"
    /\ UNCHANGED <<kvars, cfgvars, ccalls, written, total, fhist, cpc, sessions, exit_status,
                   dirExists, groups, nextq, ret>>

\* a plausible slip: the directory is not checked
M_CheckDir_NoCheck ==
    /\ mpc = "checkdir"
    /\ mpc' = "getnew"
    /\ UNCHANGED <<kvars, cfgvars, ccalls, written, total, fhist, cpc, sessions, exit_status,
                   dirExists, count, errors, queues, groups, nextq, handler,
                   ret>>

\* lines 239-240: if not os.path.exists(self.directory): raise IOError
M_CheckDir ==
    /\ mpc = "checkdir"
    /\ IF dirExists
          THEN mpc' = "getnew" /\ ret' = ret
          ELSE mpc' = "raised" /\ ret' = [kind |-> "IOError", value |-> <<>>]
    /\ UNCHANGED <<kvars, cfgvars, ccalls, written, total, fhist, cpc, sessions, exit_status,
                   dirExists, count, errors,
                   queues, groups, nextq, handler>>

\* S3Bucket.get_new(), lines 66-72: what a call can do.  boto.connect_s3 is
\* called, then conn.get_bucket returns a true value ("ok") or a false one
\* ("falsy"), or raises the store's error ("raise"), or raises
\* NoAuthHandlerFound, which is answered by sys.exit(1) ("exit")
GetNewOutcomes == {"ok", "falsy", "raise", "exit"}

\* lines 243-244: if not self.bucket.get_new(): return.  A false value makes
\* upload() return None; an exception of get_new leaves upload(); sys.exit(1)
\* ends the process
M_GetNew ==
    /\ mpc = "getnew"
    /\ exit_status = <<>>
    /\ sessions' = sessions + 1
    /\ \E outcome \in GetNewOutcomes :
        /\ mpc' = CASE outcome = "ok" -> "enumerate"
                    [] outcome = "falsy" -> "returned"
                    [] outcome = "raise" -> "raised"
                    [] outcome = "exit" -> "exited"
        /\ ret' = CASE outcome = "ok" -> ret
                    [] outcome = "falsy" -> [kind |-> "None", value |-> <<>>]
                    [] outcome = "raise" -> [kind |-> "error", value |-> <<>>]
                    [] outcome = "exit" -> [kind |-> "auth_exit", value |-> <<>>]
        /\ exit_status' = IF outcome = "exit" THEN <<1>> ELSE exit_status
    /\ UNCHANGED <<kvars, cfgvars, ccalls, written, total, fhist, cpc, dirExists, count, errors,
                   queues, groups, nextq, handler>>

\* line 247: filenames = self.get_filenames(split=True)
M_GetFilenames ==
    /\ mpc = "enumerate"
    /\ LET r == S3Uploader_get_filenames(walk, include, exclude, concurrency,
                                         total, TRUE)
       IN  /\ groups' = r.value
           /\ total' = r.total
    /\ nextq' = 1
    /\ mpc' = "start"
    /\ UNCHANGED <<kvars, cfgvars, ccalls, written, fhist, cpc, sessions, exit_status,
                   dirExists, count, errors, queues,
                   handler, ret>>

\* a plausible slip: every S3Queue is given the first group
M_Start_SameGroup ==
    /\ mpc = "start"
    /\ IF nextq <= Len(groups)
          THEN /\ queues' = Append(queues, NewQueue(groups[1]))
               /\ nextq' = nextq + 1
               /\ mpc' = mpc
          ELSE /\ mpc' = "poll"
               /\ UNCHANGED <<queues, nextq>>
    /\ UNCHANGED <<kvars, cfgvars, ccalls, written, total, fhist, cpc, sessions,
                   exit_status, dirExists, count, errors, groups, handler, ret>>

\* lines 250-255: one S3Queue per group, appended to self.queues and started
M_Start ==
    /\ mpc = "start"
    /\ IF nextq <= Len(groups)
          THEN /\ queues' = Append(queues, NewQueue(groups[nextq]))
               /\ nextq' = nextq + 1
               /\ mpc' = mpc
          ELSE /\ mpc' = "poll"
               /\ UNCHANGED <<queues, nextq>>
    /\ UNCHANGED <<kvars, cfgvars, ccalls, written, total, fhist, cpc, sessions, exit_status,
                   dirExists, count, errors,
                   groups, handler, ret>>

\* lines 259-263: the polling loop is left once nothing remains (while
\* something remains, the main thread sleeps and looks again)
M_PollDone ==
    /\ mpc = "poll"
    /\ Remaining(queues) = 0
    /\ mpc' = "collect"
    /\ UNCHANGED <<kvars, cfgvars, ccalls, written, total, fhist, cpc, sessions, exit_status,
                   dirExists, count, errors,
                   queues, groups, nextq, handler, ret>>

\* lines 265-271: collect every queue's failed list, end the progress line
\* if there is a stream, and return the list
M_Return ==
    /\ mpc = "collect"
    /\ ret' = [kind |-> "list", value |-> CollectFailures(queues)]
    /\ written' = IF output THEN Append(written, <<"\n">>) ELSE written
    /\ mpc' = "returned"
    /\ UNCHANGED <<kvars, cfgvars, ccalls, total, fhist, cpc, sessions, exit_status,
                   dirExists, count, errors,
                   queues, groups, nextq, handler>>

\* a plausible slip: only the first queue is cleared
ClearAll_FirstOnly(qs) ==
    [k \in 1..Len(qs) |-> IF k = 1 THEN [qs[k] EXCEPT !.filenames = <<>>]
                                    ELSE qs[k]]

\* a plausible slip: the queues are reset, their failed lists with them
ClearAll_WipesFailed(qs) ==
    [k \in 1..Len(qs) |-> [qs[k] EXCEPT !.filenames = <<>>, !.failed = <<>>]]

\* stop(), lines 283-284: for queue in self.queues: queue.filenames = []
ClearAll(qs) == [k \in 1..Len(qs) |-> [qs[k] EXCEPT !.filenames = <<>>]]

\* SIGINT: the handler stop() runs in the main thread, lines 281-284.  Its
\* loop is one step: an assignment to one queue's filenames is seen by that
\* queue's thread alone, so it commutes with the steps of the other threads.
M_Stop ==
    /\ handler
    /\ mpc \in MainRunning
    /\ exit_status = <<>>
    /\ queues' = ClearAll(queues)
    /\ mpc' = "stopping"
    /\ UNCHANGED <<kvars, cfgvars, ccalls, written, total, fhist, cpc, sessions, exit_status,
                   dirExists, count, errors,
                   groups, nextq, handler, ret>>

\* stop(), line 285: sys.exit(1) ends the process and its daemon threads
M_StopExit ==
    /\ mpc = "stopping"
    /\ mpc' = "exited"
    /\ ret' = [kind |-> "stop_exit", value |-> <<>>]
    /\ exit_status' = <<1>>
    /\ UNCHANGED <<kvars, cfgvars, ccalls, written, total, fhist, cpc, sessions, dirExists,
                   count, errors, queues, groups, nextq, handler>>

(***************************************************************************)
(* Spec: the worker threads (S3Queue.run).  They run while the process     *)
(* lives.                                                                  *)
(***************************************************************************)
WorkerMayRun(i) == i \in 1..Len(queues) /\ exit_status = <<>>

WorkerFrame ==
    UNCHANGED <<kvars, cfgvars, ccalls, total, fhist, cpc, exit_status, dirExists,
                mpc, groups, nextq, handler, ret>>

\* line 128: bucket = self.bucket.get_new(); an exception ends the thread
W_GetNew(i) ==
    /\ WorkerMayRun(i)
    /\ queues[i].pc = "getnew"
    /\ \E ok \in BOOLEAN :
        queues' = IF ok THEN [queues EXCEPT ![i].bucket = S3Bucket_get_new(i),
                                            ![i].pc = "check"]
                        ELSE [queues EXCEPT ![i].pc = "dead"]
    /\ sessions' = sessions + 1
    /\ UNCHANGED <<count, errors, written>>
    /\ WorkerFrame

\* line 130: while self.filenames
W_Check(i) ==
    /\ WorkerMayRun(i)
    /\ queues[i].pc = "check"
    /\ queues' = [queues EXCEPT
                    ![i].pc = IF queues[i].filenames # <<>> THEN "peek" ELSE "done"]
    /\ UNCHANGED <<count, errors, sessions, written>>
    /\ WorkerFrame

\* a plausible slip: the filename is popped before it is uploaded
W_Peek_PopsFirst(i) ==
    /\ WorkerMayRun(i)
    /\ queues[i].pc = "peek"
    /\ queues' = IF queues[i].filenames = <<>>
                    THEN [queues EXCEPT ![i].pc = "dead"]
                    ELSE [queues EXCEPT ![i].cur = Last(queues[i].filenames),
                                        ![i].filenames = Front(@),
                                        ![i].pc = "transfer"]
    /\ UNCHANGED <<count, errors, sessions, written>>
    /\ WorkerFrame

\* a plausible slip: the worker iterates over the list it was constructed
\* with, whatever self.filenames is by now
W_Peek_KeepsOldList(i) ==
    /\ WorkerMayRun(i)
    /\ queues[i].pc = "peek"
    /\ queues' = IF queues[i].filenames = <<>>
                    THEN [queues EXCEPT
                            ![i].cur = groups[i][Len(groups[i]) - Len(queues[i].log)],
                            ![i].pc = "transfer"]
                    ELSE [queues EXCEPT ![i].cur = Last(queues[i].filenames),
                                        ![i].pc = "transfer"]
    /\ UNCHANGED <<count, errors, sessions, written>>
    /\ WorkerFrame

\* line 132: self.filenames[-1] (IndexError on an empty list), _upload
\* entered; the statement's read of the list is one step
W_Peek(i) ==
    /\ WorkerMayRun(i)
    /\ queues[i].pc = "peek"
    /\ queues' = IF queues[i].filenames = <<>>
                    THEN [queues EXCEPT ![i].pc = "dead"]
                    ELSE [queues EXCEPT ![i].cur = Last(queues[i].filenames),
                                        ![i].pc = "transfer"]
    /\ UNCHANGED <<count, errors, sessions, written>>
    /\ WorkerFrame

\* lines 150-153: s3key.set_contents_from_filename(filename)
W_Transfer(i) ==
    /\ WorkerMayRun(i)
    /\ queues[i].pc = "transfer"
    /\ \E ok \in BOOLEAN :
        LET q == [queues[i] EXCEPT !.store = Append(@, PutCall(queues[i], ok))]
        IN  queues' = [queues EXCEPT
                         ![i] = IF ok THEN [q EXCEPT !.pc = "acl"]
                                      ELSE UploadFailed(q, "transfer_failed")]
    /\ UNCHANGED <<count, errors, sessions, written>>
    /\ WorkerFrame

\* lines 156-159: s3key.set_acl('public-read' or 'authenticated-read')
W_Acl(i) ==
    /\ WorkerMayRun(i)
    /\ queues[i].pc = "acl"
    /\ \E ok \in BOOLEAN :
        LET q == [queues[i] EXCEPT
                    !.store = Append(@, AclCall(queues[i], public, ok))]
        IN  queues' = [queues EXCEPT
                         ![i] = IF ok THEN UploadSucceeded(q)
                                      ELSE UploadFailed(q, "acl_failed")]
    /\ UNCHANGED <<count, errors, sessions, written>>
    /\ WorkerFrame

\* lines 164/168 and 344-346: the counter is called; `if error:` is tested
\* and the first attribute to be incremented is loaded
W_CounterCall(i) ==
    /\ WorkerMayRun(i)
    /\ queues[i].pc = "counter"
    /\ queues' = [queues EXCEPT
                    ![i].calls = Append(@, queues[i].arg),
                    ![i].tmp = IF CounterError(queues[i].arg) THEN errors ELSE count,
                    ![i].pc = IF CounterError(queues[i].arg)
                                 THEN "errors_store" ELSE "count_store"]
    /\ UNCHANGED <<count, errors, sessions, written>>
    /\ WorkerFrame

\* line 345: self.errors += 1, the store
W_ErrorsStore(i) ==
    /\ WorkerMayRun(i)
    /\ queues[i].pc = "errors_store"
    /\ errors' = queues[i].tmp + 1
    /\ queues' = [queues EXCEPT ![i].tmp = 0, ![i].pc = "count_load"]
    /\ UNCHANGED <<count, sessions, written>>
    /\ WorkerFrame

\* line 346: self.count += 1, the load
W_CountLoad(i) ==
    /\ WorkerMayRun(i)
    /\ queues[i].pc = "count_load"
    /\ queues' = [queues EXCEPT ![i].tmp = count, ![i].pc = "count_store"]
    /\ UNCHANGED <<count, errors, sessions, written>>
    /\ WorkerFrame

\* a plausible slip: a finished file is counted by the counter and again by
\* its caller
W_CountStore_AddsTwo(i) ==
    /\ WorkerMayRun(i)
    /\ queues[i].pc = "count_store"
    /\ count' = queues[i].tmp + 2
    /\ queues' = [queues EXCEPT ![i].tmp = 0, ![i].pc = "pop"]
    /\ \E columns \in ColumnsEnv :
        written' = written \o
                   S3Uploader_output(output, count', total, errors, columns)
    /\ UNCHANGED <<errors, sessions>>
    /\ WorkerFrame

\* lines 346-347: self.count += 1, the store, and self._output(); counter
\* and _upload return
W_CountStore(i) ==
    /\ WorkerMayRun(i)
    /\ queues[i].pc = "count_store"
    /\ count' = queues[i].tmp + 1
    /\ queues' = [queues EXCEPT ![i].tmp = 0, ![i].pc = "pop"]
    /\ \E columns \in ColumnsEnv :
        written' = written \o
                   S3Uploader_output(output, count', total, errors, columns)
    /\ UNCHANGED <<errors, sessions>>
    /\ WorkerFrame

\* line 135: self.filenames.pop() (IndexError on an empty list)
W_Pop(i) ==
    /\ WorkerMayRun(i)
    /\ queues[i].pc = "pop"
    /\ queues' = IF queues[i].filenames = <<>>
                    THEN [queues EXCEPT ![i].pc = "dead"]
                    ELSE [queues EXCEPT ![i].filenames = Front(@),
                                        ![i].pc = "check"]
    /\ UNCHANGED <<count, errors, sessions, written>>
    /\ WorkerFrame

\* the steps of counter that only a true `error` argument leads to; _upload
\* passes none, so no worker of an upload() run takes them
W_CounterErrorPath(i) == W_ErrorsStore(i) \/ W_CountLoad(i)

Worker(i) ==
    \/ W_GetNew(i)
    \/ W_Check(i)
    \/ W_Peek(i)
    \/ W_Transfer(i)
    \/ W_Acl(i)
    \/ W_CounterCall(i)
    \/ W_CountStore(i)
    \/ W_Pop(i)

Main ==
    \/ M_Upload
    \/ M_CheckDir
    \/ M_GetNew
    \/ M_GetFilenames
    \/ M_Start
    \/ M_PollDone
    \/ M_Return
    \/ M_Stop
    \/ M_StopExit

Next == Main \/ \E i \in 1..MaxConc : Worker(i)

Spec == Init /\ [][Next]_vars

\* the steps of upload() itself; SIGINT, which starts stop(), is an event of
\* the environment and may never come
UploadSteps ==
    \/ M_Upload
    \/ M_CheckDir
    \/ M_GetNew
    \/ M_GetFilenames
    \/ M_Start
    \/ M_PollDone
    \/ M_Return

\* Spec with the scheduling of the interpreter: the main thread and every
\* started thread (queue.start(), line 255) keep being scheduled while they
\* have a step to take; the polling loop of lines 259-263 looks again every
\* 0.1 s
SpecLive ==
    /\ Init
    /\ [][Next]_vars
    /\ WF_vars(UploadSteps)
    /\ \A i \in 1..MaxConc : WF_vars(Worker(i))

(***************************************************************************)
(* SpecRerun: upload() called on an S3Uploader that may have been used     *)
(* before, so that count, errors, total and queues hold what the earlier   *)
(* use left in them.                                                       *)
(***************************************************************************)
RerunWalks == {[k \in 1..n |-> RunFile(k)] : n \in 0..RerunMaxFiles}

\* the exclude lists: none, or one that matches every file of the directory
RerunExcludes == {NoneList, << <<"a">> >>}

RerunConcurrencies == {1, 2}

\* the S3Queue an earlier upload() of the single file a/b left in
\* self.queues: its transfer failed, the counter was called with False, the
\* file was popped and run() ended
StaleQueue ==
    LET q0 == [NewQueue(<<RunFile(1)>>) EXCEPT !.bucket = S3Bucket_get_new(1),
                                              !.cur = RunFile(1)]
        q1 == UploadFailed([q0 EXCEPT !.store = Append(@, PutCall(q0, FALSE))],
                           "transfer_failed")
    IN  [q1 EXCEPT !.calls = <<q1.arg>>, !.filenames = <<>>, !.pc = "done"]

\* what the S3Uploader holds when upload() is called: the values of
\* __init__ (lines 220-223), or what an earlier upload() of one file that
\* failed, followed by a direct call counter(True), has left
EarlierUses ==
    {[total |-> 0, count |-> 0, errors |-> 0, queues |-> <<>>,
      ccalls |-> <<>>],
     [total |-> 1, count |-> 2, errors |-> 1, queues |-> <<StaleQueue>>,
      ccalls |-> << <<TRUE>> >>]}

RInit ==
    /\ KOff
    /\ fhist = <<>>
    /\ dirExists \in BOOLEAN
    /\ walk \in RerunWalks
    /\ ~dirExists => walk = <<>>
    /\ include = NoneList
    /\ exclude \in RerunExcludes
    /\ concurrency \in RerunConcurrencies
    /\ \E u \in EarlierUses :
        /\ total = u.total /\ count = u.count /\ errors = u.errors
        /\ queues = u.queues /\ ccalls = u.ccalls
    /\ mpc = "new" /\ groups = <<>> /\ nextq = 1
    /\ handler = FALSE /\ ret = Pending
    /\ public = TRUE /\ dry_run = FALSE /\ output = FALSE
    /\ sessions = 0 /\ exit_status = <<>> /\ cpc = "off"
    /\ written = <<>>

SpecRerun == RInit /\ [][Next]_vars

(***************************************************************************)
(* SpecCli: one run of the s3peat command (scripts.py, Main.run), from the *)
(* parsed arguments to the exit of the process.  A real upload runs        *)
(* upload() and the worker threads of Spec.                                *)
(***************************************************************************)
\* where Main.run is
CliPcs == {"off", "new", "dry_enumerate", "dry_connect", "upload", "exited"}

\* the listings os.walk may yield in a run of the command
CliWalks == {[k \in 1..n |-> RunFile(k)] : n \in 0..CliMaxFiles}

\* the values of --concurrency (type=int)
CliConcurrencies == (-1)..CliMaxConc

\* pytool's Command.stop(), called at the end of run and of _dry_run
\* (lines 103, 157): sys.exit(0)
Command_stop == <<0>>

\* sys.exit(1), and the interpreter's exit on an uncaught exception
ExitError == <<1>>

CInit ==
    /\ KOff
    /\ fhist = <<>>
    /\ dirExists \in BOOLEAN
    /\ walk \in CliWalks
    /\ ~dirExists => walk = <<>>
    /\ include = NoneList
    /\ exclude = NoneList
    /\ concurrency \in CliConcurrencies
    /\ public \in BOOLEAN
    /\ dry_run \in BOOLEAN
    /\ output = FALSE
    /\ total = 0 /\ count = 0 /\ errors = 0 /\ queues = <<>>
    /\ mpc = "off" /\ groups = <<>> /\ nextq = 1
    /\ handler = FALSE /\ ret = Pending
    /\ sessions = 0 /\ exit_status = <<>> /\ cpc = "new"
    /\ ccalls = <<>> /\ written = <<>>

\* a plausible slip: the concurrency is not checked
C_Run_NoConcurrencyCheck ==
    /\ cpc = "new"
    /\ IF dry_run
          THEN cpc' = "dry_enumerate" /\ mpc' = mpc
          ELSE cpc' = "upload" /\ mpc' = "new"
    /\ UNCHANGED <<kvars, cfgvars, ccalls, written, total, fhist, dirExists, count, errors,
                   queues, groups, nextq, handler, ret, sessions, exit_status>>

\* Main.run, lines 57-91: a concurrency below 1 is answered by sys.exit(1);
\* a dry run goes to _dry_run; otherwise the S3Bucket and the S3Uploader are
\* constructed and upload() is called
C_Run ==
    /\ cpc = "new"
    /\ IF concurrency < 1
          THEN cpc' = "exited" /\ exit_status' = ExitError /\ mpc' = mpc
          ELSE IF dry_run
                  THEN cpc' = "dry_enumerate" /\ mpc' = mpc
                                             /\ exit_status' = exit_status
                  ELSE cpc' = "upload" /\ mpc' = "new"
                                      /\ exit_status' = exit_status
    /\ UNCHANGED <<kvars, cfgvars, ccalls, written, total, fhist, dirExists, count, errors,
                   queues, groups, nextq, handler, ret, sessions>>

\* _dry_run, lines 120-135: uploader.get_filenames() on an S3Uploader of
\* concurrency 1 without a bucket; the count is printed, or "No files found."
\* and sys.exit(1)
C_DryEnumerate ==
    /\ cpc = "dry_enumerate"
    /\ LET r == S3Uploader_get_filenames(walk, include, exclude, 1, total,
                                         FALSE)
       IN  /\ total' = r.total
           /\ fhist' = Append(fhist, [split |-> FALSE, value |-> r.value,
                                      total |-> r.total])
           /\ IF r.value # <<>>
                 THEN cpc' = "dry_connect" /\ exit_status' = exit_status
                 ELSE cpc' = "exited" /\ exit_status' = ExitError
    /\ UNCHANGED <<kvars, cfgvars, ccalls, written, dirExists, count, errors, queues, mpc,
                   groups, nextq, handler, ret, sessions>>

\* a plausible slip: self.stop() returns, and run goes on to the upload
C_DryConnect_FallsThrough ==
    /\ cpc = "dry_connect"
    /\ sessions' = sessions + 1
    /\ \E outcome \in GetNewOutcomes :
        IF outcome \in {"ok", "falsy"}
           THEN cpc' = "upload" /\ mpc' = "new" /\ exit_status' = exit_status
           ELSE cpc' = "exited" /\ mpc' = mpc /\ exit_status' = ExitError
    /\ UNCHANGED <<kvars, cfgvars, ccalls, written, total, fhist, dirExists, count, errors,
                   queues, groups, nextq, handler, ret>>

\* _dry_run, lines 141-157: bucket.get_new() in try/except Exception; an
\* exception and the sys.exit(1) of get_new end the process with 1, any
\* returned value is followed by self.stop()
C_DryConnect ==
    /\ cpc = "dry_connect"
    /\ sessions' = sessions + 1
    /\ \E outcome \in GetNewOutcomes :
        exit_status' = IF outcome \in {"ok", "falsy"} THEN Command_stop
                                                       ELSE ExitError
    /\ cpc' = "exited"
    /\ UNCHANGED <<kvars, cfgvars, ccalls, written, total, fhist, dirExists, count, errors,
                   queues, mpc, groups, nextq, handler, ret>>

\* Main.run, lines 97-103: `if filenames:` prints the failures and calls
\* sys.exit(1); an empty list and None end in self.stop()
ExitOfReturn(r) ==
    IF r.kind = "list" /\ r.value # <<>> THEN ExitError ELSE Command_stop

\* upload() returned to Main.run, lines 91 and 97-103
C_UploadReturned ==
    /\ cpc = "upload"
    /\ mpc = "returned"
    /\ exit_status = <<>>
    /\ exit_status' = ExitOfReturn(ret)
    /\ cpc' = "exited"
    /\ UNCHANGED <<kvars, cfgvars, ccalls, written, total, fhist, dirExists, count, errors,
                   queues, mpc, groups, nextq, handler, ret, sessions>>

\* upload() raised, lines 92-95: an IOError is printed and answered by
\* sys.exit(1); any other exception is not caught, and the interpreter
\* exits with 1
C_UploadRaised ==
    /\ cpc = "upload"
    /\ mpc = "raised"
    /\ exit_status' = ExitError
    /\ cpc' = "exited"
    /\ UNCHANGED <<kvars, cfgvars, ccalls, written, total, fhist, dirExists, count, errors,
                   queues, mpc, groups, nextq, handler, ret, sessions>>

Cli ==
    \/ C_Run
    \/ C_DryEnumerate
    \/ C_DryConnect
    \/ C_UploadReturned
    \/ C_UploadRaised

CNext == Cli \/ Main \/ \E i \in 1..CliMaxConc : Worker(i)

SpecCli == CInit /\ [][CNext]_vars

(***************************************************************************)
(* SpecCounter: a new S3Uploader whose counter is called up to             *)
(* MaxCounterCalls times, one call after the other.                        *)
(***************************************************************************)
\* the argument lists of a counter call: counter(), counter(True),
\* counter(False)
CounterArgs == {<<>>, <<TRUE>>, <<FALSE>>}

\* a plausible slip: any argument counts as an error
S3Uploader_counter_ErrorOnAnyArgument(cnt, errs, arg) ==
    [errors |-> IF arg # <<>> THEN errs + 1 ELSE errs, count |-> cnt + 1]

\* counter(self, error=False), lines 344-346, run without interruption:
\* the attributes after the call
S3Uploader_counter(cnt, errs, arg) ==
    [errors |-> IF CounterError(arg) THEN errs + 1 ELSE errs,
     count |-> cnt + 1]

\* the values of S3Uploader.total a counter call may find
CounterTotals == {0, 2, 10}

\* S3Uploader.__init__, with or without an output stream: count and errors
\* are 0; total is what get_filenames (or the caller) has set
CtrInit ==
    /\ KOff
    /\ walk = <<>> /\ include = NoneList /\ exclude = NoneList
    /\ concurrency = 1 /\ public = TRUE /\ dry_run = FALSE
    /\ output \in BOOLEAN
    /\ total \in CounterTotals
    /\ fhist = <<>>
    /\ RunOff

\* one call of counter, lines 344-347: the increments, then self._output()
Ctr_Call ==
    /\ mpc = "off" /\ cpc = "off" /\ kpc = "off"
    /\ Len(ccalls) < MaxCounterCalls
    /\ \E arg \in CounterArgs :
        LET r == S3Uploader_counter(count, errors, arg)
        IN  /\ count' = r.count
            /\ errors' = r.errors
            /\ ccalls' = Append(ccalls, arg)
            /\ \E columns \in ColumnsEnv :
                written' = written \o
                    S3Uploader_output(output, r.count, total, r.errors, columns)
    /\ UNCHANGED <<kvars, cfgvars, total, fhist, dirExists, queues, mpc,
                   groups, nextq, handler, ret, sessions, exit_status, cpc>>

CtrNext == Ctr_Call

SpecCounter == CtrInit /\ [][CtrNext]_vars

(***************************************************************************)
(* Claims about key generation, checked under SpecKey.                     *)
(***************************************************************************)
\* s consists of separators only
IsSlashes(s) == \A i \in 1..Len(s) : s[i] = "/"

\* t is s without its leading and trailing separators
IsTrimOf(t, s) ==
    /\ t = <<>> \/ (t[1] # "/" /\ t[Len(t)] # "/")
    /\ \E a, b \in 0..Len(s) :
        /\ a + Len(t) + b = Len(s)
        /\ IsSlashes(SubSeq(s, 1, a))
        /\ SubSeq(s, a + 1, a + Len(t)) = t
        /\ IsSlashes(SubSeq(s, a + Len(t) + 1, Len(s)))

\* r is s without its leading separators
IsLeftTrimOf(r, s) ==
    /\ r = <<>> \/ r[1] # "/"
    /\ Len(r) <= Len(s)
    /\ IsSlashes(SubSeq(s, 1, Len(s) - Len(r)))
    /\ SubSeq(s, Len(s) - Len(r) + 1, Len(s)) = r

\* u is path with strip_path removed if and only if path starts with it
IsStripOf(u, path, strip_path) ==
    IF strip_path # None /\ (\E rest \in StringsUpTo(Len(path)) : path = strip_path \o rest)
        THEN path = strip_path \o u
        ELSE u = path

\* C9: every key _key returns is trim_slashes(prefix), one separator, and
\* trim_leading_slashes(strip(path, strip_path)), where strip_path is removed
\* exactly when the path starts with it; neither part touches the separator
\* with a slash of its own.
C9_KeyIsJoinOfTrimmedParts ==
    kpc = "keyed" =>
        \E cut \in 0..(Len(kkey) - 1) :
            LET P == SubSeq(kkey, 1, cut)
                R == SubSeq(kkey, cut + 2, Len(kkey))
            IN  /\ kkey[cut + 1] = "/"
                /\ IsTrimOf(P, IF kprefix = None THEN <<>> ELSE kprefix)
                /\ \E u \in StringsUpTo(Len(kfilename)) :
                    /\ IsStripOf(u, kfilename, kstrip_path)
                    /\ IsLeftTrimOf(R, u)

\* C9 witness: a prefix that had slashes to trim, a strip_path that the
\* filename starts with, and a second filename-part left after stripping.
C9_Witness ==
    /\ kpc = "keyed"
    /\ kprefix # None /\ kprefix # kself_prefix /\ kself_prefix # <<>>
    /\ Truthy(kstrip_path) /\ StartsWith(kfilename, kstrip_path)
    /\ Len(kfilename) > Len(kstrip_path)
    /\ kkey = kself_prefix \o <<"/", "a">>

\* C10 (as claimed): with an empty or absent prefix, self.prefix is '' and
\* the key is the relative path alone, not beginning with a separator.
C10_NoPrefixKeyIsRelativePath ==
    (kpc = "keyed" /\ ~Truthy(kprefix)) =>
        /\ kself_prefix = <<>>
        /\ kkey = <<>> \/ kkey[1] # "/"
        /\ \E u \in StringsUpTo(Len(kfilename)) :
            /\ IsStripOf(u, kfilename, kstrip_path)
            /\ IsLeftTrimOf(kkey, u)

(***************************************************************************)
(* Claims about get_filenames, checked under SpecFilter.                   *)
(***************************************************************************)
\* the elements of a sequence
Range(q) == {q[i] : i \in 1..Len(q)}

\* the places <<g, k>> of a list of groups
Places(gs) ==
    UNION {{<<g, k>> : k \in 1..Len(gs[g])} : g \in 1..Len(gs)}

\* the files one get_filenames call returned
FilesOf(e) ==
    IF e.split THEN {e.value[p[1]][p[2]] : p \in Places(e.value)}
    ELSE Range(e.value)

\* the filter as the documentation states it
MatchesSome(regs, f) == \E k \in 1..Len(regs) : Search(regs[k], f)

PassesFilter(f) ==
    /\ (include = NoneList \/ include = <<>> \/ MatchesSome(include, f))
    /\ ~(exclude # NoneList /\ MatchesSome(exclude, f))

FilteredSet == {f \in Range(walk) : PassesFilter(f)}

RECURSIVE SumLens(_)
SumLens(gs) ==
    IF gs = <<>> THEN 0 ELSE Len(Head(gs)) + SumLens(Tail(gs))

\* C3: get_filenames(split=True) returns exactly `concurrency` groups; every
\* filtered file is at exactly one place of exactly one group, nothing else
\* is in a group, and the group lengths add up to total.
C3_SplitPartitionsFilteredList ==
    \A n \in 1..Len(fhist) :
        LET e == fhist[n]
        IN  e.split =>
            /\ Len(e.value) = concurrency
            /\ \A f \in FilteredSet :
                Cardinality({p \in Places(e.value) : e.value[p[1]][p[2]] = f}) = 1
            /\ \A p \in Places(e.value) : e.value[p[1]][p[2]] \in FilteredSet
            /\ SumLens(e.value) = e.total

\* C3 witness: three files split over two groups (sizes 2 and 1).
C3_Witness ==
    \E n \in 1..Len(fhist) :
        /\ fhist[n].split
        /\ concurrency = 2
        /\ Len(fhist[n].value[1]) = 2
        /\ Len(fhist[n].value[2]) = 1

\* C7: the files get_filenames returns are exactly the files under the root
\* that match an inclusion pattern (or any file, with no inclusion pattern
\* configured) and match no exclusion pattern.
C7_ReturnsIncludedNotExcluded ==
    \A n \in 1..Len(fhist) : FilesOf(fhist[n]) = FilteredSet

\* C7 witness: both lists configured, one file matching both (dropped), one
\* file matching an inclusion pattern only (returned), one matching none.
C7_Witness ==
    /\ Len(fhist) > 0 /\ ~fhist[1].split
    /\ TruthyList(include) /\ TruthyList(exclude)
    /\ \E f \in Range(walk) :
        MatchesSome(include, f) /\ MatchesSome(exclude, f) /\ f \notin FilesOf(fhist[1])
    /\ \E f \in Range(walk) : f \in FilesOf(fhist[1])
    /\ \E f \in Range(walk) : ~MatchesSome(include, f)

\* C8: after every call total is the number of files that passed the filter
\* in that call, and all calls on the unchanged directory give the same total
\* and the same file set.
C8_TotalIsPerCallAndRepeatable ==
    /\ \A n \in 1..Len(fhist) :
        /\ fhist[n].total = Cardinality(FilesOf(fhist[n]))
        /\ fhist[n].total = Cardinality(FilteredSet)
    /\ fhist # <<>> => total = fhist[Len(fhist)].total
    /\ \A m, n \in 1..Len(fhist) :
        /\ fhist[m].total = fhist[n].total
        /\ FilesOf(fhist[m]) = FilesOf(fhist[n])

\* C8 witness: a second call on a directory where files pass the filter.
C8_Witness ==
    /\ Len(fhist) >= 2
    /\ fhist[2].total >= 2
    /\ total = fhist[1].total

(***************************************************************************)
(* Claims about an upload() run, checked under Spec.                       *)
(***************************************************************************)
\* stop() has run (the run was cancelled)
Cancelled == mpc = "stopping" \/ ret.kind = "stop_exit"

\* upload() has returned its list
Returned == mpc = "returned" /\ ret.kind = "list"

\* the finished upload attempts, as <<queue, position in its log>>
Attempts == UNION {{<<i, k>> : k \in 1..Len(queues[i].log)} : i \in 1..Len(queues)}

AttemptFile(a) == queues[a[1]].log[a[2]].file

AttemptFailed(a) == queues[a[1]].log[a[2]].result # "ok"

\* the files whose transfer or access-policy step failed
FailedFiles == {AttemptFile(a) : a \in {b \in Attempts : AttemptFailed(b)}}

\* the files of the failed entries of a log, in the log's order
RECURSIVE FailedOfLog(_)
FailedOfLog(log) ==
    IF log = <<>> THEN <<>>
    ELSE (IF Head(log).result # "ok" THEN <<Head(log).file>> ELSE <<>>)
         \o FailedOfLog(Tail(log))

\* C1: the list upload() returns holds exactly the enumerated files whose
\* transfer or access-policy step failed, each once, every worker's failed
\* list is in it, and it is empty iff no upload failed.
C1_ReturnedListIsTheFailures ==
    Returned =>
        /\ Range(ret.value) = FailedFiles
        /\ FailedFiles \subseteq FilteredSet
        /\ NoRepeat(ret.value)
        /\ \A i \in 1..Len(queues) : Range(queues[i].failed) \subseteq Range(ret.value)
        /\ Len(ret.value) = SumLens([i \in 1..Len(queues) |-> queues[i].failed])
        /\ (ret.value = <<>>) <=> (\A a \in Attempts : ~AttemptFailed(a))

\* C1 witness: a run with two workers that both recorded a failure, and a
\* successful upload beside them.
C1_Witness ==
    /\ Returned
    /\ Len(queues) = 2
    /\ queues[1].failed # <<>> /\ queues[2].failed # <<>>
    /\ \E a \in Attempts : ~AttemptFailed(a)

\* C2: once the polling loop is left, and when upload() has returned its
\* list, every partition is empty, no worker is inside an upload, and every
\* enumerated file has had exactly one finished attempt.
C2_ReturnsOnlyWhenAllAttempted ==
    (mpc = "collect" \/ Returned) =>
        /\ \A i \in 1..Len(queues) :
            /\ queues[i].filenames = <<>>
            /\ queues[i].pc \in {"getnew", "check", "done", "dead"}
        /\ \A f \in FilteredSet :
            Cardinality({a \in Attempts : AttemptFile(a) = f}) = 1

\* C2 witness: upload() returned after two workers uploaded three files.
C2_Witness ==
    /\ Returned
    /\ Len(queues) = 2
    /\ total = 3
    /\ Cardinality(Attempts) = 3

\* C4: without cancellation, a worker's failed list is the files of its
\* failed attempts in order, a worker is never ended by a failed upload (a
\* dead worker has attempted nothing: it died opening its session), and a
\* worker that is done has attempted every task of its partition.
C4_FailureDoesNotAbortWorker ==
    ~Cancelled =>
        \A i \in 1..Len(queues) :
            LET q == queues[i]
            IN  /\ q.failed = FailedOfLog(q.log)
                /\ q.pc = "dead" => q.log = <<>>
                /\ q.pc = "done" =>
                    {q.log[k].file : k \in 1..Len(q.log)} = Range(groups[i])

\* C4 witness: a worker whose first upload failed went on to its second
\* task and finished, and the other worker finished its own task too.
C4_Witness ==
    /\ ~Cancelled
    /\ Len(queues) = 2
    /\ queues[1].pc = "done" /\ queues[2].pc = "done"
    /\ Len(queues[1].log) = 2
    /\ queues[1].log[1].result # "ok"
    /\ queues[1].failed[1] = queues[1].log[1].file
    /\ Len(queues[2].log) = 1

\* C5: without cancellation a worker calls the counter at most once per
\* finished attempt, with no arguments after a success and with the single
\* argument False after a failure; when run() ends, the counter was called
\* once per task of the partition and the partition is empty.
C5_CounterCalledOncePerTask ==
    ~Cancelled =>
        \A i \in 1..Len(queues) :
            LET q == queues[i]
            IN  /\ Len(q.calls) <= Len(q.log)
                /\ q.pc \in {"pop", "check", "peek", "transfer", "acl", "done"}
                    => Len(q.calls) = Len(q.log)
                /\ \A k \in 1..Len(q.calls) :
                    q.calls[k] = IF q.log[k].result = "ok" THEN <<>> ELSE <<FALSE>>
                /\ q.pc = "done" =>
                    /\ Len(q.calls) = Len(groups[i])
                    /\ q.filenames = <<>>

\* C5 witness: a finished worker that called the counter once without
\* arguments and once with False.
C5_Witness ==
    /\ ~Cancelled
    /\ \E i \in 1..Len(queues) :
        /\ queues[i].pc = "done"
        /\ Len(groups[i]) = 2
        /\ \E k \in 1..2 : queues[i].calls[k] = <<>>
        /\ \E k \in 1..2 : queues[i].calls[k] = <<FALSE>>

\* C6 (as claimed): when every upload of a run failed, the returned list is
\* as long as total and errors equals total when upload() returns.
C6_AllFailedErrorsEqualsTotal ==
    (Returned /\ \A a \in Attempts : AttemptFailed(a)) =>
        /\ Len(ret.value) = total
        /\ errors = total

\* what the code does instead in the case of C6: errors is still 0
C6_ErrorsStaysZero ==
    Returned => errors = 0


(***************************************************************************)
(* Claims about upload()'s early exits and about stop() (Spec).            *)
(***************************************************************************)
\* C11: on a nonexistent directory upload() raises IOError, and at no point
\* of such a run does a worker exist or has a store session been opened;
\* IOError is raised for no other reason.
C11_MissingDirectoryRaisesFirst ==
    /\ ret.kind = "IOError" => ~dirExists /\ mpc = "raised"
    /\ ~dirExists =>
        /\ queues = <<>>
        /\ sessions = 0
        /\ groups = <<>>
        /\ mpc \in {"new", "checkdir", "raised", "stopping", "exited"}
        /\ (mpc = "raised" => ret.kind = "IOError")
        /\ (mpc = "exited" => ret.kind = "stop_exit")

\* C11 witness: upload() raised IOError on a missing directory.
C11_Witness ==
    /\ ~dirExists
    /\ mpc = "raised"
    /\ ret.kind = "IOError"
    /\ handler

\* the up-front check of upload() has failed: get_new returned a false
\* value, raised, or left through sys.exit(1)
UpFrontCheckFailed == ret.kind \in {"None", "error", "auth_exit"}

\* C12 (as claimed): when the up-front check fails, upload() returns None,
\* no worker was started and no upload attempted.
C12_FailedCheckReturnsNone ==
    UpFrontCheckFailed =>
        /\ mpc = "returned"
        /\ ret.kind = "None"
        /\ queues = <<>>
        /\ count = 0

\* what holds in the case of C12: no worker is started, whichever way the
\* check failed
C12_FailedCheckStartsNoWorker ==
    UpFrontCheckFailed => queues = <<>> /\ count = 0 /\ sessions = 1

IsPrefix(a, b) == Len(a) <= Len(b) /\ SubSeq(b, 1, Len(a)) = a

\* C14: a step never removes or changes an entry of a worker's failed list
\* or log, the step that clears the partitions changes neither, and once the
\* partitions are cleared no worker enters an upload (a worker inside one
\* goes on with it while the process lives).
C14_ClearStopsWorkerKeepsRecords ==
    [][\A i \in 1..Len(queues) :
         /\ IsPrefix(queues[i].failed, queues'[i].failed)
         /\ IsPrefix(queues[i].log, queues'[i].log)
         /\ (mpc # "stopping" /\ mpc' = "stopping") =>
              /\ queues'[i].failed = queues[i].failed
              /\ queues'[i].log = queues[i].log
              /\ queues'[i].filenames = <<>>
         /\ Cancelled' =>
              (queues'[i].pc = "transfer" => queues[i].pc = "transfer")]_vars

\* C14 witness: after the clear a worker with a recorded failure has come
\* to rest with a task of its partition never attempted.
C14_Witness ==
    /\ Cancelled
    /\ \E i \in 1..Len(queues) :
        /\ queues[i].failed # <<>>
        /\ queues[i].failed = FailedOfLog(queues[i].log)
        /\ Len(queues[i].log) < Len(groups[i])
        /\ queues[i].pc \in {"done", "dead"}

\* C15 (as claimed): whatever the setting of cancellation handling, once
\* upload() is past its first lines the SIGINT handler is installed iff the
\* setting is enabled.
C15_HandlerOnlyIfEnabled ==
    \A handle_signals \in BOOLEAN :
        mpc \notin {"off", "new"} => (handler <=> handle_signals)

\* what the code does in the case of C15: every upload() installs the handler
C15_HandlerAlwaysInstalled ==
    mpc \notin {"off", "new"} <=> handler

(***************************************************************************)
(* Claims about the s3peat command and its workers (SpecCli).              *)
(***************************************************************************)
\* the destination key of a file of the run: the prefix without its slashes,
\* "/", and the file's path below the directory
DestinationKey(file) == <<"b", "/">> \o SubSeq(file, 3, Len(file))

\* C16: every set_acl call of a worker directly follows a successful
\* transfer to the same key, which is the destination key of the file; its
\* policy is public-read if the bucket is public and authenticated-read
\* otherwise; a transfer is never repeated after a success; and a file whose
\* set_acl failed is in the worker's failed list.
C16_TransferThenPolicy ==
    \A i \in 1..Len(queues) :
        LET q == queues[i]
            S == queues[i].store
        IN  \A n \in 1..Len(S) :
              /\ S[n].op = "set_acl" =>
                   /\ n > 1
                   /\ S[n - 1].op = "set_contents_from_filename"
                   /\ S[n - 1].ok
                   /\ S[n - 1].key = S[n].key
                   /\ S[n].arg = <<IF public THEN "public-read"
                                             ELSE "authenticated-read">>
                   /\ ~S[n].ok => S[n - 1].arg \in Range(q.failed)
              /\ S[n].op = "set_contents_from_filename" =>
                   /\ S[n].arg \in Range(groups[i])
                   /\ S[n].key = DestinationKey(S[n].arg)
                   /\ (S[n].ok /\ n < Len(S)) => S[n + 1].op = "set_acl"
                   /\ (S[n].ok /\ n = Len(S)) => q.pc = "acl"

\* C16 witness: a worker of a private bucket set authenticated-read on one
\* file, and its set_acl on another file failed after a successful transfer.
C16_Witness ==
    /\ ~public
    /\ \E i \in 1..Len(queues) :
        LET S == queues[i].store
        IN  /\ Len(S) = 4
            /\ S[2].op = "set_acl" /\ ~S[2].ok
            /\ S[2].arg = <<"authenticated-read">>
            /\ S[1].arg \in Range(queues[i].failed)
            /\ S[4].op = "set_acl" /\ S[4].ok
            /\ S[3].arg \notin Range(queues[i].failed)

\* the command ran a real upload and the process has exited
RealUploadExited == ~dry_run /\ concurrency >= 1 /\ exit_status # <<>>

C17_ExitZeroAfterEmptyListOrNone ==
    RealUploadExited =>
        /\ exit_status = <<0>> <=>
             (ret.kind = "None" \/ (ret.kind = "list" /\ ret.value = <<>>))
        /\ exit_status \in {<<0>>, <<1>>}

C19_BadConcurrencyExitsFirst ==
    (cpc # "off" /\ concurrency < 1) =>
        /\ cpc \in {"new", "exited"}
        /\ (cpc = "new" <=> exit_status = <<>>)
        /\ (cpc = "exited" <=> exit_status = <<1>>)
        /\ mpc = "off"
        /\ fhist = <<>> /\ groups = <<>> /\ total = 0
        /\ sessions = 0
        /\ queues = <<>>
        /\ ~handler

\* C19 witness: the command exited with 1 on a concurrency of 0, in a
\* directory that has files.
C19_Witness ==
    /\ concurrency = 0
    /\ walk # <<>>
    /\ cpc = "exited"
    /\ exit_status = <<1>>

\* C20: a dry run never enters upload() and never has a worker; it makes one
\* enumeration and at most one connection, which it makes only if files
\* were found; it ends with an exit of the process, with 0 only after files
\* were found and the connection was made.
C20_DryRunUploadsNothing ==
    (cpc # "off" /\ dry_run /\ concurrency >= 1) =>
        /\ cpc \in {"new", "dry_enumerate", "dry_connect", "exited"}
        /\ mpc = "off" /\ ret = Pending /\ ~handler
        /\ queues = <<>> /\ groups = <<>> /\ count = 0
        /\ Len(fhist) <= 1
        /\ sessions <= 1
        /\ sessions = 1 => (fhist # <<>> /\ total > 0)
        /\ (cpc = "exited" <=> exit_status # <<>>)
        /\ cpc = "exited" =>
             /\ Len(fhist) = 1
             /\ ~fhist[1].split
             /\ total = Cardinality(FilteredSet)
             /\ exit_status \in {<<0>>, <<1>>}
             /\ exit_status = <<0>> => (total > 0 /\ sessions = 1)
             /\ total = 0 => (exit_status = <<1>> /\ sessions = 0)

\* C20 witness: a dry run found two files, connected, and exited with 0.
C20_Witness ==
    /\ dry_run
    /\ cpc = "exited"
    /\ exit_status = <<0>>
    /\ total = 2
    /\ sessions = 1


(***************************************************************************)
(* Claims about the exit status of a cancelled run (SpecCli).              *)
(***************************************************************************)
\* the exit status of a run of the command that completed with failures
StatusOfFailures == ExitOfReturn([kind |-> "list", value |-> <<RunFile(1)>>])

\* C21 (as claimed): a run of the command ended by stop() has a non-zero
\* exit status that differs from the status of a run that completed with
\* upload failures.
C21_CancelStatusDistinct ==
    ret.kind = "stop_exit" =>
        /\ exit_status # <<0>>
        /\ exit_status # StatusOfFailures

\* what holds in the case of C21: both statuses are 1
C21_CancelStatusIsFailureStatus ==
    ret.kind = "stop_exit" => (exit_status = <<1>> /\ StatusOfFailures = <<1>>)

(***************************************************************************)
(* Claims about the worker's loop and the counter (Spec).                  *)
(***************************************************************************)
\* the positions of run() inside one _upload call, before and after the
\* outcome is recorded
InTransfer == {"transfer", "acl"}

Recorded == {"counter", "errors_store", "count_load", "count_store", "pop"}

\* C22: without cancellation, the task a worker is uploading (or has just
\* finished and not yet popped) is the last element of its partition; the
\* partition and the log together hold the worker's group, so a task leaves
\* the partition only at the pop, when its outcome is in the log and the
\* counter was called for it.
C22_TaskStaysUntilFinished ==
    ~Cancelled =>
        \A i \in 1..Len(queues) :
            LET q == queues[i]
            IN  /\ q.pc \in InTransfer \cup Recorded =>
                    /\ q.filenames # <<>>
                    /\ q.filenames[Len(q.filenames)] = q.cur
                /\ q.filenames = SubSeq(groups[i], 1, Len(q.filenames))
                /\ q.pc \in Recorded =>
                    /\ Len(q.filenames) + Len(q.log) = Len(groups[i]) + 1
                    /\ q.log[Len(q.log)].file = q.cur
                /\ q.pc \notin Recorded =>
                    Len(q.filenames) + Len(q.log) = Len(groups[i])
                /\ q.pc = "pop" => Len(q.calls) = Len(q.log)

\* C22 witness: a worker has recorded its first task and called the counter
\* for it, and the task is still the last of its two-task partition.
C22_Witness ==
    /\ ~Cancelled
    /\ \E i \in 1..Len(queues) :
        /\ queues[i].pc = "pop"
        /\ Len(queues[i].filenames) = 2
        /\ Len(queues[i].log) = 1
        /\ Len(queues[i].calls) = 1
        /\ queues[i].log[1].file = queues[i].filenames[2]

\* C23: whatever the other threads do, a worker enters an upload only from
\* the read of line 132, which follows the emptiness test of line 130 having
\* found the partition non-empty, and the task it takes is at that moment
\* the last element of its partition (never one that was removed).
C23_UploadsOnlyPresentTasks ==
    [][\A i \in 1..Len(queues) :
         /\ (queues'[i].pc = "peek" /\ queues[i].pc # "peek") =>
              /\ queues[i].pc = "check"
              /\ queues[i].filenames # <<>>
         /\ (queues'[i].pc = "transfer" /\ queues[i].pc # "transfer") =>
              /\ queues[i].pc = "peek"
              /\ queues[i].filenames # <<>>
              /\ queues'[i].cur = queues[i].filenames[Len(queues[i].filenames)]
              /\ queues'[i].filenames = queues[i].filenames
         /\ Len(queues'[i].store) > Len(queues[i].store) =>
              queues[i].pc \in InTransfer]_vars

\* C23 witness: stop() has cleared the partition of a worker that had found
\* it non-empty and was about to read its last element.
C23_Witness ==
    /\ mpc = "stopping"
    /\ \E i \in 1..Len(queues) :
        /\ queues[i].pc = "peek"
        /\ queues[i].filenames = <<>>
        /\ Len(queues[i].log) < Len(groups[i])

\* C24 (as claimed): no counter update is lost, so when upload() returns its
\* list, count equals total.
C24_NoUpdateLost ==
    Returned => count = total

\* C25 (as claimed): once a worker exists total does not change, and count
\* and errors never decrease.
C25_TotalFixedCountersMonotone ==
    [][/\ queues # <<>> => total' = total
       /\ mpc # "new" => count' >= count
       /\ mpc # "new" => errors' >= errors]_vars

\* what holds in the case of C25: total is fixed once a worker exists, and
\* errors never changes
C25_TotalFixedErrorsUnchanged ==
    [][/\ queues # <<>> => total' = total
       /\ mpc # "new" => errors' = errors]_vars

\* the files of a log, in the log's order
LogFiles(log) == [k \in 1..Len(log) |-> log[k].file]

Reverse(q) == [k \in 1..Len(q) |-> q[Len(q) + 1 - k]]

\* C27 (as claimed): the tasks a worker has attempted are, in the order of
\* the attempts, the first tasks of its partition in the partition's order.
C27_AttemptsInPartitionOrder ==
    \A i \in 1..Len(queues) :
        /\ Len(queues[i].log) <= Len(groups[i])
        /\ LogFiles(queues[i].log) = SubSeq(groups[i], 1, Len(queues[i].log))

\* C27 (amended): the tasks a worker has attempted are, in the order of the
\* attempts, the last tasks of its partition in reverse order, and the worker
\* is inside at most one attempt, which is the next task in that order.
C27_AttemptsInReversePartitionOrder ==
    \A i \in 1..Len(queues) :
        LET q == queues[i]
            n == Len(groups[i])
        IN  /\ Len(q.log) <= n
            /\ LogFiles(q.log) = Reverse(SubSeq(groups[i], n - Len(q.log) + 1, n))
            /\ q.pc \in InTransfer =>
                 /\ Len(q.log) < n
                 /\ q.cur = groups[i][n - Len(q.log)]

\* C27 witness: a worker finished a partition of two tasks, the second task
\* first.
C27_Witness ==
    \E i \in 1..Len(queues) :
        /\ Len(groups[i]) = 2
        /\ queues[i].pc = "done"
        /\ Len(queues[i].log) = 2
        /\ queues[i].log[1].file = groups[i][2]
        /\ queues[i].log[2].file = groups[i][1]

\* the partitions that hold a task
NonEmptyGroups == {g \in 1..Len(groups) : groups[g] # <<>>}

\* C28 (as claimed): once the start loop is over, there are as many workers
\* as non-empty partitions, and no worker has an empty group.
C28_WorkerPerNonEmptyPartition ==
    mpc \in {"poll", "collect"} =>
        /\ Len(queues) = Cardinality(NonEmptyGroups)
        /\ \A i \in 1..Len(queues) : groups[i] # <<>>

\* what holds in the case of C28: there is a worker for every partition
C28_WorkerPerPartition ==
    mpc \in {"poll", "collect"} =>
        /\ Len(queues) = concurrency
        /\ Len(groups) = concurrency


\* the workers whose run() has made its get_new call
CalledGetNew == {i \in 1..Len(queues) : queues[i].pc # "getnew"}

\* C29: the sessions opened are the one of the up-front check and one per
\* worker that has entered run(); a worker holds a session from its get_new
\* call on, different from every other worker's and from the session of the
\* up-front check, and every store call of the worker is made on it.
C29_OwnSessionPerWorker ==
    /\ queues # <<>> => sessions = 1 + Cardinality(CalledGetNew)
    /\ \A i \in 1..Len(queues) :
        LET q == queues[i]
        IN  /\ q.pc \notin {"getnew", "dead"} => q.bucket # <<>>
            /\ q.pc = "getnew" => (q.bucket = <<>> /\ q.store = <<>>)
            /\ q.bucket = <<>> => q.store = <<>>
            /\ q.bucket # <<>> => q.bucket # S3Bucket_get_new(MainThread)
            /\ \A j \in 1..Len(queues) :
                 (j # i /\ q.bucket # <<>>) => queues[j].bucket # q.bucket
            /\ \A n \in 1..Len(q.store) : q.store[n].session = q.bucket

\* C29 witness: two workers have each uploaded a file on their own session,
\* three sessions having been opened in the run.
C29_Witness ==
    /\ sessions = 3
    /\ Len(queues) = 2
    /\ queues[1].store # <<>> /\ queues[2].store # <<>>
    /\ queues[1].store[1].session # queues[2].store[1].session


(***************************************************************************)
(* Claims about the counter called on its own (SpecCounter).               *)
(***************************************************************************)
\* C26: after any sequence of sequential counter calls, count is the number
\* of calls and errors is the number of calls made with error=True; so each
\* call adds 1 to count, and 1 to errors iff its argument is True.
C26_CounterCountsCallsAndErrors ==
    /\ count = Len(ccalls)
    /\ errors = Cardinality({k \in 1..Len(ccalls) : ccalls[k] = <<TRUE>>})

\* C26 witness: three calls, one of each kind, left count at 3 and errors
\* at 1.
C26_Witness ==
    /\ Len(ccalls) = 3
    /\ {ccalls[k] : k \in 1..3} = CounterArgs
    /\ count = 3
    /\ errors = 1


(***************************************************************************)
(* Claims about the partitioning (SpecFilter).                             *)
(***************************************************************************)
\* the files that pass the filter, in the listing's order
FilteredList == SelectSeq(walk, PassesFilter)

\* the positions of a list of n files that go to group g of m groups
PlacesOfGroup(n, m, g) == {p \in 1..n : (p - 1) % m = g - 1}

\* C30: get_filenames(split=True) puts the file at index i of the filtered
\* list (counted from 0) at index i div N of group i mod N, and nothing else
\* into a group; so a group keeps the input order, the sizes of two groups
\* differ by at most one, with fewer files than N the groups past the last
\* file are empty, and two calls on the same directory return the same
\* groups.
C30_RoundRobinPlacement ==
    \A n \in 1..Len(fhist) :
        fhist[n].split =>
            LET gs == fhist[n].value
                L == FilteredList
            IN  /\ Len(gs) = concurrency
                /\ \A g \in 1..concurrency :
                     Len(gs[g]) = Cardinality(PlacesOfGroup(Len(L), concurrency, g))
                /\ \A p \in 1..Len(L) :
                     gs[((p - 1) % concurrency) + 1][((p - 1) \div concurrency) + 1]
                        = L[p]
                /\ \A g, h \in 1..concurrency : Len(gs[g]) - Len(gs[h]) <= 1
                /\ \A g \in 1..concurrency : g > Len(L) => gs[g] = <<>>
                /\ \A m \in 1..Len(fhist) :
                     fhist[m].split => fhist[m].value = gs

\* C30 witness: three filtered files were split for a concurrency of 2 in
\* two calls: the first and the third file in group 0, the second in group 1.
C30_Witness ==
    /\ Len(fhist) = 2
    /\ fhist[1].split /\ fhist[2].split
    /\ concurrency = 2
    /\ Len(FilteredList) = 3
    /\ fhist[2].value = << <<FilteredList[1], FilteredList[3]>>,
                           <<FilteredList[2]>> >>


(***************************************************************************)
(* Claims about the progress line (SpecCounter).                           *)
(***************************************************************************)
\* t occurs in s
Contains(s, t) ==
    \E k \in 0..(Len(s) - Len(t)) : SubSeq(s, k + 1, k + Len(t)) = t

\* self.errors after the k-th of the counter calls made so far
ErrorsAfter(k) == Cardinality({j \in 1..k : ccalls[j] = <<TRUE>>})

ErrorWord == <<"e", "r", "r", "o", "r">>

\* C33: without an output stream nothing is ever written; with one, the
\* k-th counter call made exactly one write, of one line that begins with a
\* carriage return (and holds no other line break), shows count/total as
\* they are after the call, and has an error segment iff errors > 0 then.
C33_OneStatusLinePerCall ==
    /\ ~output => written = <<>>
    /\ output =>
        /\ Len(written) = Len(ccalls)
        /\ \A k \in 1..Len(written) :
            LET w == written[k]
            IN  /\ w[1] = "\r"
                /\ \A n \in 2..Len(w) : w[n] \notin {"\r", "\n"}
                /\ Contains(w, Str(k) \o <<"/">> \o Str(total) \o <<" ", "f">>)
                /\ Contains(w, ErrorWord) <=> ErrorsAfter(k) > 0
                /\ ErrorsAfter(k) > 0 =>
                     Contains(w, <<"(">> \o Str(ErrorsAfter(k)) \o <<" ">>
                                 \o ErrorWord)

\* C33 witness: with a stream and a total of 10, three calls wrote three
\* lines: the first without an error segment and with a padded count, the
\* third with "(1 error)".
C33_Witness ==
    /\ output
    /\ total = 10
    /\ Len(written) = 3
    /\ ccalls[1] # <<TRUE>>
    /\ written[1][2] = " "
    /\ ~Contains(written[1], ErrorWord)
    /\ Contains(written[3], <<"(", "1", " ">> \o ErrorWord \o <<")">>)


(***************************************************************************)
(* Claims about what stop() leaves of the workers (Spec).                  *)
(***************************************************************************)
\* the positions of run() at which an upload attempt is not finished: the
\* store calls are being made, or the outcome is recorded and the counter
\* call has not returned
Unfinished == InTransfer \cup {"counter", "errors_store", "count_load", "count_store"}

\* C31 (as claimed): once stop() has cleared the partitions no upload is
\* started, and when the process of a stopped run has ended no upload is
\* left unfinished.
C31_InFlightFinishesNoneStarted ==
    [][/\ Cancelled' =>
            \A i \in 1..Len(queues) :
                ~(queues'[i].pc = "transfer" /\ queues[i].pc # "transfer")
       /\ ret'.kind = "stop_exit" =>
            \A i \in 1..Len(queues') : queues'[i].pc \notin Unfinished]_vars

\* what holds in the case of C31: no upload is started after the clearing
C31_NoneStartedAfterClear ==
    [][Cancelled' =>
          \A i \in 1..Len(queues) :
              ~(queues'[i].pc = "transfer" /\ queues[i].pc # "transfer")]_vars

\* C35 (as claimed): a worker never evaluates self.filenames[-1] (line 132)
\* or self.filenames.pop() (line 135) on an empty list, so no step of run()
\* ends the thread with an IndexError.
C35_WorkerNeverFailsOnEmptyList ==
    [][\A i \in 1..Len(queues) :
         (queues[i].pc \in {"peek", "pop"} /\ queues'[i].pc # queues[i].pc) =>
            /\ queues[i].filenames # <<>>
            /\ queues'[i].pc # "dead"]_vars

\* what holds in the case of C35: without stop(), the list is non-empty at
\* the peek and at the pop
C35_NonEmptyWithoutStop ==
    ~Cancelled =>
        \A i \in 1..Len(queues) :
            queues[i].pc \in {"peek", "pop"} => queues[i].filenames # <<>>

(***************************************************************************)
(* Claims about termination (SpecLive).                                    *)
(***************************************************************************)
\* upload() is over: it returned or raised, the process exited, or stop()
\* has taken over
UploadOver == mpc \in {"returned", "raised", "exited", "stopping"}

\* C34 (as claimed): with fair scheduling and every store call and callback
\* returning, an upload() that is not cancelled is eventually over.
C34_UploadEventuallyOver == <>UploadOver

\* what holds in the case of C34: upload() is eventually over unless a worker
\* thread has died
C34_OverUnlessWorkerDied ==
    <>(UploadOver \/ \E i \in 1..Len(queues) : queues[i].pc = "dead")


(***************************************************************************)
(* Claims about an upload() on a used S3Uploader (SpecRerun).              *)
(***************************************************************************)
\* upload() has been entered: lines 231-233 were executed
InRun == mpc \notin {"off", "new"}

\* the transfers a worker has made, as positions of its store calls
Transfers(i) ==
    {n \in 1..Len(queues[i].store) :
        queues[i].store[n].op = "set_contents_from_filename"}

\* C32: every enumerated file is in exactly one worker's group; a worker
\* transfers only files of its own group; and no file is the subject of two
\* transfers, by the same worker or by two workers.  Cancelled runs are
\* among the states.
C32_FileOwnedByOneWorker ==
    InRun =>
        /\ queues # <<>> =>
             \A f \in FilteredSet :
                 Cardinality({g \in 1..Len(groups) : f \in Range(groups[g])}) = 1
        /\ \A i \in 1..Len(queues) :
             \A n \in Transfers(i) :
                 /\ queues[i].store[n].arg \in Range(groups[i])
                 /\ \A j \in 1..Len(queues) :
                      \A m \in Transfers(j) :
                          queues[j].store[m].arg = queues[i].store[n].arg
                              => (j = i /\ m = n)

\* C32 witness: two workers have each transferred the file of their group,
\* and stop() has run.
C32_Witness ==
    /\ Cancelled
    /\ Len(queues) = 2
    /\ Transfers(1) # {} /\ Transfers(2) # {}
    /\ Len(groups[1]) = 1 /\ Len(groups[2]) = 1

\* C36: from the entry of upload() on, 0 <= errors <= count <= total, and
\* count is at most the number of finished upload attempts.
C36_CountersOrdered ==
    InRun =>
        /\ 0 <= errors
        /\ errors <= count
        /\ count <= total
        /\ count <= Cardinality(Attempts)

\* C36 witness: two workers have finished an attempt each and one update of
\* count was lost.
C36_Witness ==
    /\ InRun
    /\ total = 2
    /\ Cardinality(Attempts) = 2
    /\ count = 1
    /\ \A i \in 1..Len(queues) : queues[i].pc = "done"

\* the S3Uploader was used before this upload()
UsedBefore == ccalls # <<>>

\* C37: whatever an earlier use left behind, upload() starts with count = 0,
\* errors = 0 and an empty queues list; afterwards self.queues holds only
\* workers of this run (each made from a group of this run, its attempts on
\* files of that group), count and errors are bounded by what this run's
\* workers did, and the returned list is this run's failures.
C37_RunStartsFromZero ==
    InRun =>
        /\ mpc = "checkdir" => (count = 0 /\ errors = 0 /\ queues = <<>>)
        /\ Len(queues) <= Len(groups)
        /\ \A i \in 1..Len(queues) :
            /\ IsPrefix(queues[i].filenames, groups[i])
            /\ Range(LogFiles(queues[i].log)) \subseteq Range(groups[i])
            /\ Range(queues[i].failed) \subseteq Range(groups[i])
        /\ count <= SumLens([i \in 1..Len(queues) |-> queues[i].calls])
        /\ errors = 0
        /\ Returned =>
            /\ Range(ret.value) = FailedFiles
            /\ Len(ret.value) = Cardinality(FailedFiles)

\* C37 witness: on an S3Uploader whose earlier run had failed on a/b, a run
\* of two files has returned an empty list with count = 2.
C37_Witness ==
    /\ UsedBefore
    /\ Returned
    /\ ret.value = <<>>
    /\ total = 2
    /\ count = 2
    /\ errors = 0

\* C38: when no file passes the filter, a run makes no store call on a key
\* and no counter call, count stays 0, and upload() returns the empty list
\* with total = 0.
C38_NothingToUpload ==
    (InRun /\ FilteredList = <<>>) =>
        /\ \A i \in 1..Len(queues) :
            /\ queues[i].store = <<>>
            /\ queues[i].calls = <<>>
            /\ queues[i].log = <<>>
        /\ count = 0
        /\ Returned => (ret.value = <<>> /\ total = 0)

\* C38 witness: upload() returned the empty list on a directory of two files
\* that the exclude list filters out, after two workers had started.
C38_Witness ==
    /\ Returned
    /\ Len(walk) = 2
    /\ FilteredList = <<>>
    /\ Len(queues) = 2
    /\ ret.value = <<>>
    /\ total = 0

=============================================================================
